---- MODULE Spec2Model ----
(***************************************************************************)
(* Emitter of oskarwrobel/js-utils (src/src/emitter.ts): named event       *)
(* subscription lists, cross-emitter bookkeeping and synchronous dispatch, *)
(* and the Observable built on it: reactive properties and the binding of  *)
(* target callbacks to the properties of source observables.               *)
(*                                                                         *)
(* A JavaScript Map is modelled as the sequence of its <<key, value>>      *)
(* entries in insertion order, an array as a sequence.                     *)
(***************************************************************************)
EXTENDS Integers, Sequences, FiniteSets, TLC

VARIABLES
    events,             \* emitter -> Map<eventName, Callback[]>
    subscribedEmitters, \* emitter -> Map<emitter, Callback[]>
    error,              \* TRUE once an operation has thrown
    calls,              \* the calls the spies recorded during the last fire
    op,                 \* the last operation that was called
    registered,         \* history: the <<self, emitter, eventName, callback>> passed to listenTo
    lastStop,           \* history: the last stopListening call, until the next listenTo
    halted,             \* history: <<emitter, eventName>> whose last dispatch was stopped
    detached,           \* history: <<emitter, eventName, callback>> that detached itself
    depth,              \* the deepest nesting of dispatches during the last operation
    unregistered,       \* history: <<emitter, eventName, callback>> removed during a dispatch
    observables,        \* observable -> Map<name, value> (_observables)
    accessors,          \* the <<observable, name>> whose accessor property is defined
    targetToSourceDefinition, \* observable -> Map<target, Map<source, Set<property>>>
    sourcePropertyToTarget,   \* observable -> Map<source, reference to a Map<property, Set<target>>>
    propertyMaps,       \* heap: the Map<property, Set<target>> objects, by reference
    listeners,          \* heap: the change listeners created by to(), by reference
    thrown,             \* the message of the Error an operation has thrown
    targetCalls,        \* the calls the bound targets recorded during the last operation
    fired,              \* the change events the accessors fired during the last operation
    unbinds,            \* the unbind calls the callbacks made during the last operation
    declared,           \* history: the <<observable, target, properties>> of the bindings in force
    released,           \* history: the bindings that unbind removed, until the target is bound again
    survivors,          \* history: the <<observable, target>> bound since before an unbind of another target
    rebound,            \* history: the <<observable, target>> bound again after an unbind
    latest              \* history: target -> the arguments of its most recent call while bound

emitterVars == <<events, subscribedEmitters, error, calls, op, registered, lastStop, halted,
                 detached, depth, unregistered>>

observableVars == <<observables, accessors, targetToSourceDefinition, sourcePropertyToTarget,
                    propertyMaps, listeners, thrown, targetCalls, fired, unbinds,
                    declared, released, survivors, rebound, latest>>

vars == <<emitterVars, observableVars>>

(* ------------------------------ bounds --------------------------------- *)

MaxListen == 3       \* dispatch: on/listenTo is called while fewer registrations are held

MaxSubscribed == 2   \* subscriptions: listenTo is called while fewer registrations are held

MaxBind == 2         \* bindings: to() is called while fewer change listeners were created

MaxDepth == 4        \* call stack: the nested dispatches it has room for

(* ------------------------------ inputs --------------------------------- *)

None == "undefined"

Emitters == {"emitterA", "emitterB", "emitterC"}

EventNames == {"something", "other"}

PlainSpies == {"spy1", "spy2", "spy3"}

Callbacks == PlainSpies \cup {"stopSpy", "offSpy", "offStopSpy"}

\* The spies that register and unregister callbacks while they are called.
ReentrantCallbacks == {"registerSpy", "unregisterSpy", "stopListeningSpy"}

FireArgs == {<<>>, <<"obj", 1, "a", TRUE>>}

Observables == {"observable", "observableA", "observableB"}

Objects == Emitters \cup Observables

Properties == {"foo", "bar"}

\* Property values: undefined, two strings and NaN.
Values == {None, "a", "b", "NaN"}

Targets == {"spy1", "spy2"}

\* The targets the bodies of the callbacks and the bindings name.
AllTargets == Targets \cup {"unbindSpy", "bindSpy"}

(* --------------------------- JavaScript Map ---------------------------- *)

Has(map, key) == \E i \in 1..Len(map) : map[i][1] = key

Get(map, key) ==
    IF Has(map, key)
    THEN map[CHOOSE i \in 1..Len(map) : map[i][1] = key][2]
    ELSE None

MapSet(map, key, value) ==
    IF Has(map, key)
    THEN [i \in 1..Len(map) |-> IF map[i][1] = key THEN <<key, value>> ELSE map[i]]
    ELSE Append(map, <<key, value>>)

Delete(map, key) == SelectSeq(map, LAMBDA entry : entry[1] # key)

Keys(map) == [i \in 1..Len(map) |-> map[i][1]]

(* -------------------------- JavaScript Array --------------------------- *)

\* Array.prototype.indexOf, 0-based, -1 when the element is absent.
IndexOf(array, element) ==
    IF \E i \in 1..Len(array) : array[i] = element
    THEN (CHOOSE i \in 1..Len(array) :
            /\ array[i] = element
            /\ \A j \in 1..(i - 1) : array[j] # element) - 1
    ELSE -1

\* Array.prototype.splice( start, 1 ): a negative start counts from the end.
Splice1(array, start) ==
    LET len  == Len(array)
        from == IF start < 0
                THEN (IF len + start < 0 THEN 0 ELSE len + start)
                ELSE (IF start > len THEN len ELSE start)
    IN  [i \in 1..(IF from < len THEN len - 1 ELSE len) |->
            IF i <= from THEN array[i] ELSE array[i + 1]]

\* The number of occurrences of the element in the list.
Count(list, element) == Cardinality({i \in 1..Len(list) : list[i] = element})

removeCallback(callbackList, callback) ==
    Splice1(callbackList, IndexOf(callbackList, callback))

(* ---------------------------- EmitterEvent ----------------------------- *)

EmitterEvent(name) == [name |-> name, stop |-> FALSE, off |-> FALSE]

\* The callbacks of the test suite: a plain spy, customSpy calling
\* evt.stop(), customSpy calling evt.off(), and one calling both.
CallCallback(callback, event) ==
    [event EXCEPT !.stop = @ \/ callback \in {"stopSpy", "offStopSpy"},
                  !.off  = @ \/ callback \in {"offSpy", "offStopSpy"}]

(* ----------------------- Observable: listeners ------------------------- *)
\* The operations are functions of the program state st, the record of the
\* variables of the program (see State).

\* throw new Error( message ); a TypeError of the runtime has the message "TypeError".
Throw(st, message) == [st EXCEPT !.error = TRUE, !.thrown = message]

\* The operator === of JavaScript on the property values.
StrictEquals(x, y) == x = y /\ x # "NaN"

ChangeEvent(property) == "change:" \o property

\* The reference of the i-th change listener created by to().
ListenerName(i) == "listener" \o ToString(i)

IsListener(st, callback) == \E i \in 1..Len(st.listeners) : ListenerName(i) = callback

ListenerOf(st, callback) ==
    st.listeners[CHOOSE i \in 1..Len(st.listeners) : ListenerName(i) = callback]

\* source[ property ]: the getter reads _observables, a property never set is undefined.
ReadProperty(st, source, property) == Get(st.observables[source], property)

RECURSIVE collectAllTargetValues(_, _, _)
collectAllTargetValues(st, sourceDefinition, i) ==
    IF i > Len(sourceDefinition) THEN <<>>
    ELSE LET source     == sourceDefinition[i][1]
             properties == sourceDefinition[i][2]
         IN  [k \in 1..Len(properties) |-> ReadProperty(st, source, properties[k])]
                 \o collectAllTargetValues(st, sourceDefinition, i + 1)

RECURSIVE unbind(_, _, _)
RECURSIVE stopListening(_, _, _, _, _)
RECURSIVE set(_, _, _, _)
RECURSIVE bind(_, _, _, _)

\* listenTo that pushes the callback to the caller's own event list.
listenToOwnEvents(st, self, emitter, eventName, callback) ==
    LET subscribed == IF Has(st.subscribedEmitters[self], emitter)
                      THEN st.subscribedEmitters[self]
                      ELSE MapSet(st.subscribedEmitters[self], emitter, <<>>)
        evs        == IF Has(st.events[self], eventName)
                      THEN st.events[self]
                      ELSE MapSet(st.events[self], eventName, <<>>)
        st1 == [st EXCEPT !.subscribedEmitters[self] =
                    MapSet(subscribed, emitter, Append(Get(subscribed, emitter), callback))]
    IN  [st1 EXCEPT !.events[self] =
            MapSet(evs, eventName, Append(Get(evs, eventName), callback))]

listenTo(st, self, emitter, eventName, callback) ==
    LET subscribed == IF Has(st.subscribedEmitters[self], emitter)
                      THEN st.subscribedEmitters[self]
                      ELSE MapSet(st.subscribedEmitters[self], emitter, <<>>)
        evs        == IF Has(st.events[emitter], eventName)
                      THEN st.events[emitter]
                      ELSE MapSet(st.events[emitter], eventName, <<>>)
        emitterCallbacks == Get(subscribed, emitter)
        eventCallbacks   == Get(evs, eventName)
        st1 == [st EXCEPT !.subscribedEmitters[self] =
                    MapSet(subscribed, emitter, Append(emitterCallbacks, callback))]
    IN  [st1 EXCEPT !.events[emitter] =
            MapSet(evs, eventName, Append(eventCallbacks, callback))]

on(st, self, eventName, callback) == listenTo(st, self, self, eventName, callback)

off(st, self, eventName, callback) == stopListening(st, self, self, eventName, callback)

\* The record of a binding a callback has made, when bind().to() returned.
BindInside(st, self, targetCallback, properties) ==
    IF st.error THEN st
    ELSE [st EXCEPT !.binds = @ \cup {<<self, targetCallback, properties>>}]

\* The body of a callback: unbindSpy is a spy that calls
\* observable.unbind( spy1 ), registerSpy one that calls
\* emitterA.on( 'something', spy2 ), unregisterSpy one that calls
\* emitterA.off( 'something', spy1 ), stopListeningSpy one that calls
\* emitterA.stopListening( emitterA, 'something' ), setSpy one that calls
\* observableA.set( 'foo', 'b' ), setNaNSpy one that calls
\* observableA.set( 'foo', NaN ), bindSpy one that calls
\* observable.bind( spy2 ).to( observableA, 'foo' ); the other spies only record.
RunCallback(st, callback) ==
    IF callback = "bindSpy"
    THEN BindInside(bind(st, "observable", "spy2", <<"observableA", "foo">>),
                    "observable", "spy2", <<"observableA", "foo">>)
    ELSE
    IF callback = "setSpy"
    THEN set(st, "observableA", "foo", "b")
    ELSE IF callback = "setNaNSpy"
    THEN set(st, "observableA", "foo", "NaN")
    ELSE IF callback = "registerSpy"
    THEN [on(st, "emitterA", "something", "spy2") EXCEPT
            !.listens = @ \cup {<<"emitterA", "emitterA", "something", "spy2">>}]
    ELSE IF callback = "unregisterSpy"
    THEN off(st, "emitterA", "something", "spy1")
    ELSE IF callback = "stopListeningSpy"
    THEN stopListening(st, "emitterA", "emitterA", "something", None)
    ELSE IF callback = "unbindSpy"
    THEN [unbind(st, "observable", "spy1") EXCEPT !.unbinds = Append(@,
            [self   |-> "observable",
             target |-> "spy1",
             bound  |-> Has(st.targetToSourceDefinition["observable"], "spy1"),
             at     |-> Len(st.targetCalls)])]
    ELSE st

\* The targets of the live Set that the iterator of the change listener has
\* not visited: the iterator of a Set skips a target deleted before it is
\* reached and visits a target added while it runs. (No callback of the model
\* deletes a target the iterator has visited and adds it again in one call, and
\* none empties the Set and creates it again during one run of the listener.)
Unvisited(st, listener, visited) ==
    SelectSeq(Get(st.propertyMaps[listener.map], listener.property),
              LAMBDA t : \A j \in 1..Len(visited) : visited[j] # t)

\* The loop of the change listener over the targets of its property.
RECURSIVE CallTargets(_, _, _)
CallTargets(st, listener, visited) ==
    IF st.error \/ ~Has(st.propertyMaps[listener.map], listener.property) THEN st
    ELSE IF Len(Unvisited(st, listener, visited)) = 0 THEN st
    ELSE IF ~Has(st.targetToSourceDefinition[listener.self],
                 Unvisited(st, listener, visited)[1])
    THEN Throw(st, "TypeError")
    ELSE CallTargets(
            RunCallback(
                [st EXCEPT !.targetCalls = Append(@,
                    [target |-> Unvisited(st, listener, visited)[1],
                     args   |-> collectAllTargetValues(st,
                                    Get(st.targetToSourceDefinition[listener.self],
                                        Unvisited(st, listener, visited)[1]), 1)])],
                Unvisited(st, listener, visited)[1]),
            listener, Append(visited, Unvisited(st, listener, visited)[1]))

\* The closure passed to listenTo by to(): it holds this, the Map of the
\* properties of its source and the property.
changeListener(st, callback) ==
    LET listener         == ListenerOf(st, callback)
        sourceProperties == st.propertyMaps[listener.map]
    IN  IF ~Has(sourceProperties, listener.property)
        THEN Throw(st, "TypeError")
        ELSE CallTargets(st, listener, <<>>)

\* callback( event, ...args ): a change listener or the body of a spy runs.
Invoke(st, callback) ==
    IF IsListener(st, callback) THEN changeListener(st, callback) ELSE RunCallback(st, callback)

(* ------------------------------ Emitter -------------------------------- *)

\* fire is entered: the dispatch remembers how many callback lists had been
\* deleted from the events maps, and the nesting of the dispatches grows.
EnterFire(st) ==
    [st EXCEPT !.dispatches = Append(@, Len(st.deleted)),
               !.deepest    = IF Len(st.dispatches) + 1 > @ THEN Len(st.dispatches) + 1 ELSE @]

\* fire returns or throws.
LeaveFire(st) == [st EXCEPT !.dispatches = SubSeq(@, 1, Len(@) - 1)]

\* const callbacks = this[ events ].get( eventName ): the array the running
\* dispatch holds is no longer the one in the events map when the list of the
\* event was deleted since the dispatch began.
IsDetached(st, self, eventName) ==
    \E k \in (st.dispatches[Len(st.dispatches)] + 1)..Len(st.deleted) :
        st.deleted[k] = <<self, eventName>>

\* The dispatch loop without the check of event.stop.
RECURSIVE FireLoopIgnoringStop(_, _, _, _, _, _)
FireLoopIgnoringStop(st, self, eventName, snapshot, i, args) ==
    IF i > Len(snapshot) THEN st
    ELSE
        LET callback == snapshot[i]
            created  == EmitterEvent(eventName)
            event    == CallCallback(callback, created)
            st1      == Invoke([st EXCEPT !.calls = Append(@,
                            [callback |-> callback, event |-> created, args |-> args])],
                               callback)
            st2      == IF event.off /\ ~IsDetached(st1, self, eventName)
                        THEN [st1 EXCEPT !.events[self] = MapSet(@, eventName,
                                removeCallback(Get(@, eventName), callback))]
                        ELSE st1
        IN  IF st1.error THEN st1
            ELSE FireLoopIgnoringStop(st2, self, eventName, snapshot, i + 1, args)

\* The dispatch loop without the check of event.off.
RECURSIVE FireLoopIgnoringOff(_, _, _, _, _, _)
FireLoopIgnoringOff(st, self, eventName, snapshot, i, args) ==
    IF i > Len(snapshot) THEN st
    ELSE
        LET callback == snapshot[i]
            created  == EmitterEvent(eventName)
            event    == CallCallback(callback, created)
            st1      == Invoke([st EXCEPT !.calls = Append(@,
                            [callback |-> callback, event |-> created, args |-> args])],
                               callback)
        IN  IF st1.error \/ event.stop THEN st1
            ELSE FireLoopIgnoringOff(st1, self, eventName, snapshot, i + 1, args)

\* The dispatch loop that checks event.stop before it removes the callback.
RECURSIVE FireLoopStopBeforeOff(_, _, _, _, _, _)
FireLoopStopBeforeOff(st, self, eventName, snapshot, i, args) ==
    IF i > Len(snapshot) THEN st
    ELSE
        LET callback == snapshot[i]
            created  == EmitterEvent(eventName)
            event    == CallCallback(callback, created)
            st1      == Invoke([st EXCEPT !.calls = Append(@,
                            [callback |-> callback, event |-> created, args |-> args])],
                               callback)
            st2      == IF event.off /\ ~IsDetached(st1, self, eventName)
                        THEN [st1 EXCEPT !.events[self] = MapSet(@, eventName,
                                removeCallback(Get(@, eventName), callback))]
                        ELSE st1
        IN  IF st1.error \/ event.stop THEN st1
            ELSE FireLoopStopBeforeOff(st2, self, eventName, snapshot, i + 1, args)

\* if ( event.off.isCalled ) removeCallback( callbacks, callback )
RemoveDetached(st, self, eventName, callback) ==
    IF CallCallback(callback, EmitterEvent(eventName)).off /\ ~IsDetached(st, self, eventName)
    THEN [st EXCEPT !.events[self] = MapSet(@, eventName,
            removeCallback(Get(@, eventName), callback))]
    ELSE st

RECURSIVE FireLoop(_, _, _, _, _, _)

\* The rest of the loop body once the callback has returned or thrown.
AfterCallback(st, self, eventName, snapshot, i, args) ==
    IF st.error THEN st
    ELSE IF CallCallback(snapshot[i], EmitterEvent(eventName)).stop
    THEN RemoveDetached(st, self, eventName, snapshot[i])
    ELSE FireLoop(RemoveDetached(st, self, eventName, snapshot[i]),
                  self, eventName, snapshot, i + 1, args)

FireLoop(st, self, eventName, snapshot, i, args) ==
    IF i > Len(snapshot) THEN st
    ELSE AfterCallback(
            Invoke([st EXCEPT !.calls = Append(@,
                        [callback |-> snapshot[i],
                         event    |-> EmitterEvent(eventName),
                         args     |-> args])],
                   snapshot[i]),
            self, eventName, snapshot, i, args)

\* fire that walks the copy of the callback list from its end.
fireBackwards(st, self, eventName, args) ==
    IF ~Has(st.events[self], eventName) THEN st
    ELSE IF Len(st.dispatches) >= MaxDepth THEN Throw(st, "RangeError")
    ELSE LET callbackList == Get(st.events[self], eventName)
         IN  LeaveFire(FireLoop(EnterFire(st), self, eventName,
                      [i \in 1..Len(callbackList) |-> callbackList[Len(callbackList) + 1 - i]],
                      1, args))

\* A dispatch nested deeper than the call stack allows throws a RangeError.
fire(st, self, eventName, args) ==
    IF ~Has(st.events[self], eventName) THEN st
    ELSE IF Len(st.dispatches) >= MaxDepth THEN Throw(st, "RangeError")
    ELSE LeaveFire(FireLoop(EnterFire(st), self, eventName,
                            Get(st.events[self], eventName), 1, args))

\* stopListening( emitter, eventName, callback ) with all three arguments:
\* lines 156-170.
stopListeningCallback(st, self, emitter, eventName, callback) ==
    LET emitterCallbacks == Get(st.subscribedEmitters[self], emitter)
        eventCallbacks   == Get(st.events[emitter], eventName)
    IN  IF ~Has(st.subscribedEmitters[self], emitter) \/ ~Has(st.events[emitter], eventName)
        THEN [st EXCEPT !.error = TRUE]
        ELSE
            LET emitterCallbacks1 == removeCallback(emitterCallbacks, callback)
                eventCallbacks1   == removeCallback(eventCallbacks, callback)
                st1 == [st EXCEPT !.subscribedEmitters[self] =
                            IF Len(emitterCallbacks1) = 0
                            THEN Delete(@, emitter)
                            ELSE MapSet(@, emitter, emitterCallbacks1)]
            IN  IF Len(eventCallbacks1) = 0
                THEN [st1 EXCEPT !.events[emitter] = Delete(@, eventName),
                                 !.deleted = Append(@, <<emitter, eventName>>)]
                ELSE [st1 EXCEPT !.events[emitter] = MapSet(@, eventName, eventCallbacks1)]

RECURSIVE StopEachEmitter(_, _, _, _)
RECURSIVE StopEachEventName(_, _, _, _, _)
RECURSIVE StopEachCallback(_, _, _, _, _, _)

\* The loop of lines 133-135 over a copy of the subscribed emitters.
StopEachEmitter(st, self, emitterKeys, i) ==
    IF i > Len(emitterKeys) \/ st.error THEN st
    ELSE StopEachEmitter(stopListening(st, self, emitterKeys[i], None, None),
                         self, emitterKeys, i + 1)

\* The loop of lines 141-143 over a copy of the emitter's event names.
StopEachEventName(st, self, emitter, nameKeys, i) ==
    IF i > Len(nameKeys) \/ st.error THEN st
    ELSE StopEachEventName(stopListening(st, self, emitter, nameKeys[i], None),
                           self, emitter, nameKeys, i + 1)

\* The loop of lines 149-151 over a copy of the event's callbacks.
StopEachCallback(st, self, emitter, eventName, snapshot, i) ==
    IF i > Len(snapshot) \/ st.error THEN st
    ELSE StopEachCallback(stopListening(st, self, emitter, eventName, snapshot[i]),
                          self, emitter, eventName, snapshot, i + 1)

\* stopListening without the early return for an unknown event name: the
\* copy of an undefined callback list throws.
stopListeningUnknownName(st, self, emitter, eventName, callback) ==
    IF Len(st.subscribedEmitters[self]) = 0 THEN st
    ELSE IF emitter # None /\ ~Has(st.subscribedEmitters[self], emitter) THEN st
    ELSE IF eventName # None /\ emitter = None THEN [st EXCEPT !.error = TRUE]
    ELSE IF emitter = None
        THEN StopEachEmitter(st, self, Keys(st.subscribedEmitters[self]), 1)
    ELSE IF eventName = None
        THEN StopEachEventName(st, self, emitter, Keys(st.events[emitter]), 1)
    ELSE IF ~Has(st.events[emitter], eventName) THEN [st EXCEPT !.error = TRUE]
    ELSE IF callback = None
        THEN StopEachCallback(st, self, emitter, eventName,
                              Get(st.events[emitter], eventName), 1)
    ELSE stopListeningCallback(st, self, emitter, eventName, callback)

stopListening(st, self, emitter, eventName, callback) ==
    IF Len(st.subscribedEmitters[self]) = 0 THEN st
    ELSE IF emitter # None /\ ~Has(st.subscribedEmitters[self], emitter) THEN st
    ELSE IF eventName # None /\ emitter = None THEN [st EXCEPT !.error = TRUE]
    ELSE IF eventName # None /\ ~Has(st.events[emitter], eventName) THEN st
    ELSE IF emitter = None
        THEN StopEachEmitter(st, self, Keys(st.subscribedEmitters[self]), 1)
    ELSE IF eventName = None
        THEN StopEachEventName(st, self, emitter, Keys(st.events[emitter]), 1)
    ELSE IF callback = None
        THEN StopEachCallback(st, self, emitter, eventName,
                              Get(st.events[emitter], eventName), 1)
    ELSE stopListeningCallback(st, self, emitter, eventName, callback)

(* ----------------------------- Observable ------------------------------ *)

\* Set.prototype.add and Set.prototype.delete on a set kept in insertion order.
SetAdd(elements, element) ==
    IF \E i \in 1..Len(elements) : elements[i] = element
    THEN elements
    ELSE Append(elements, element)

SetDelete(elements, element) == SelectSeq(elements, LAMBDA x : x # element)

\* Object.defineProperty( this, name, { enumerable, get, set } ): the property
\* is not configurable, defining it again with new functions throws a TypeError.
defineProperty(st, self, name) ==
    IF <<self, name>> \in st.accessors
    THEN Throw(st, "TypeError")
    ELSE [st EXCEPT !.accessors = @ \cup {<<self, name>>}]

\* An accessor that fires the change event before it stores the value.
setterFiringBeforeStore(st, self, name, value) ==
    LET oldValue == Get(st.observables[self], name)
    IN  IF StrictEquals(oldValue, value) THEN st
        ELSE [fire([st EXCEPT !.fired = Append(@, [self      |-> self,
                                                   eventName |-> ChangeEvent(name),
                                                   args      |-> <<value, oldValue>>])],
                   self, ChangeEvent(name), <<value, oldValue>>)
                EXCEPT !.observables[self] = MapSet(@, name, value)]

\* An accessor that stores and fires without comparing the values.
setterWithoutComparison(st, self, name, value) ==
    LET oldValue == Get(st.observables[self], name)
    IN  fire([st EXCEPT !.observables[self] = MapSet(@, name, value),
                        !.fired = Append(@, [self      |-> self,
                                             eventName |-> ChangeEvent(name),
                                             args      |-> <<value, oldValue>>])],
             self, ChangeEvent(name), <<value, oldValue>>)

\* The set function of the accessor: this[ name ] = value.
setter(st, self, name, value) ==
    LET oldValue == Get(st.observables[self], name)
    IN  IF StrictEquals(oldValue, value) THEN st
        ELSE fire([st EXCEPT !.observables[self] = MapSet(@, name, value),
                             !.fired = Append(@, [self      |-> self,
                                                  eventName |-> ChangeEvent(name),
                                                  args      |-> <<value, oldValue>>])],
                  self, ChangeEvent(name), <<value, oldValue>>)

set(st, self, name, value) ==
    LET st1 == IF ~Has(st.observables[self], name)
               THEN defineProperty(st, self, name)
               ELSE st
    IN  IF st1.error THEN st1 ELSE setter(st1, self, name, value)

\* The elements of a source list are object references (the names in Objects)
\* or strings; only an Observable has a bind function.
RECURSIVE FormatLoop(_, _, _)
FormatLoop(properties, i, definition) ==
    IF i >= Len(properties) - 1 THEN [error |-> FALSE, definition |-> definition]
    ELSE LET source   == properties[i + 1]
             property == properties[i + 2]
         IN  IF source \notin Observables
                THEN [error |-> TRUE, definition |-> <<>>]
             ELSE IF property \in Objects
                THEN [error |-> TRUE, definition |-> <<>>]
             ELSE FormatLoop(properties, i + 2,
                    IF Has(definition, source)
                    THEN MapSet(definition, source, SetAdd(Get(definition, source), property))
                    ELSE MapSet(definition, source, <<property>>))

formatSource(properties) ==
    IF Len(properties) < 2
    THEN [error |-> TRUE, definition |-> <<>>]
    ELSE FormatLoop(properties, 0, <<>>)

\* The loop of to() over the properties of one source.
RECURSIVE BindEachProperty(_, _, _, _, _, _, _)
BindEachProperty(st, self, targetCallback, source, map, properties, k) ==
    IF k > Len(properties) THEN st
    ELSE
        LET property == properties[k]
            st1 == IF ~Has(st.propertyMaps[map], property)
                   THEN listenTo(
                            [st EXCEPT !.propertyMaps[map] = MapSet(@, property, <<>>),
                                       !.listeners = Append(@,
                                            [self |-> self, source |-> source,
                                             property |-> property, map |-> map])],
                            self, source, ChangeEvent(property),
                            ListenerName(Len(st.listeners) + 1))
                   ELSE st
            st2 == [st1 EXCEPT !.propertyMaps[map] =
                        MapSet(@, property, SetAdd(Get(@, property), targetCallback))]
        IN  BindEachProperty(st2, self, targetCallback, source, map, properties, k + 1)

\* The loop of to() over the sources of the definition.
RECURSIVE BindEachSource(_, _, _, _, _)
BindEachSource(st, self, targetCallback, sourceDefinition, i) ==
    IF i > Len(sourceDefinition) THEN st
    ELSE
        LET source     == sourceDefinition[i][1]
            properties == sourceDefinition[i][2]
            st1 == IF ~Has(st.sourcePropertyToTarget[self], source)
                   THEN [st EXCEPT !.propertyMaps = Append(@, <<>>),
                                   !.sourcePropertyToTarget[self] =
                                        MapSet(@, source, Len(st.propertyMaps) + 1)]
                   ELSE st
            sourceProperties == Get(st1.sourcePropertyToTarget[self], source)
        IN  BindEachSource(
                BindEachProperty(st1, self, targetCallback, source, sourceProperties,
                                 properties, 1),
                self, targetCallback, sourceDefinition, i + 1)

\* to() without the initial execution of the target.
toWithoutInitialCall(st, self, targetCallback, properties) ==
    LET formatted == formatSource(properties)
    IN  IF formatted.error THEN Throw(st, "Invalid source definition.")
        ELSE BindEachSource(
                [st EXCEPT !.targetToSourceDefinition[self] =
                    MapSet(@, targetCallback, formatted.definition)],
                self, targetCallback, formatted.definition, 1)

\* to() that remembers the target before it formats the source.
toRememberingFirst(st, self, targetCallback, properties) ==
    LET formatted == formatSource(properties)
        st0 == [st EXCEPT !.targetToSourceDefinition[self] =
                    MapSet(@, targetCallback, formatted.definition)]
    IN  IF formatted.error THEN Throw(st0, "Invalid source definition.")
        ELSE
            LET st2 == BindEachSource(st0, self, targetCallback, formatted.definition, 1)
            IN  RunCallback(
                    [st2 EXCEPT !.targetCalls = Append(@,
                        [target |-> targetCallback,
                         args   |-> collectAllTargetValues(st2,
                                        Get(st2.targetToSourceDefinition[self], targetCallback),
                                        1)])],
                    targetCallback)

to(st, self, targetCallback, properties) ==
    LET formatted == formatSource(properties)
    IN  IF formatted.error THEN Throw(st, "Invalid source definition.")
        ELSE
            LET sourceDefinition == formatted.definition
                st1 == [st EXCEPT !.targetToSourceDefinition[self] =
                            MapSet(@, targetCallback, sourceDefinition)]
                st2 == BindEachSource(st1, self, targetCallback, sourceDefinition, 1)
            IN  RunCallback(
                    [st2 EXCEPT !.targetCalls = Append(@,
                        [target |-> targetCallback,
                         args   |-> collectAllTargetValues(st2,
                                        Get(st2.targetToSourceDefinition[self], targetCallback),
                                        1)])],
                    targetCallback)

\* bind without the check of the target being bound already.
bindWithoutCheck(st, self, targetCallback, properties) ==
    to(st, self, targetCallback, properties)

\* bind( targetCallback ).to( ...properties )
bind(st, self, targetCallback, properties) ==
    IF Has(st.targetToSourceDefinition[self], targetCallback)
    THEN Throw(st, "Cannot bind the same callback twice.")
    ELSE to(st, self, targetCallback, properties)

\* if ( !propertyToTarget.size ) this._sourcePropertyToTarget.delete( observable )
DeleteSourceWithoutProperties(st, self, observable, map) ==
    IF Len(st.propertyMaps[map]) = 0
    THEN [st EXCEPT !.sourcePropertyToTarget[self] = Delete(@, observable)]
    ELSE st

\* The loop of unbind over the properties of one source.
RECURSIVE UnbindEachProperty(_, _, _, _, _, _, _)
UnbindEachProperty(st, self, targetCallback, observable, map, propertyKeys, k) ==
    IF k > Len(propertyKeys) \/ st.error THEN st
    ELSE
        LET property == propertyKeys[k]
            targets  == Get(st.propertyMaps[map], property)
            targets1 == SetDelete(targets, targetCallback)
            st1 == [st EXCEPT !.propertyMaps[map] = Delete(@, property)]
            st3 == DeleteSourceWithoutProperties(
                        stopListening(st1, self, observable, ChangeEvent(property), None),
                        self, observable, map)
        IN  UnbindEachProperty(
                IF \E j \in 1..Len(targets) : targets[j] = targetCallback
                THEN IF Len(targets1) = 0
                     THEN st3
                     ELSE [st EXCEPT !.propertyMaps[map] = MapSet(@, property, targets1)]
                ELSE st,
                self, targetCallback, observable, map, propertyKeys, k + 1)

\* The loop of unbind over the sources this observable is bound to.
RECURSIVE UnbindEachSource(_, _, _, _, _)
UnbindEachSource(st, self, targetCallback, entries, i) ==
    IF i > Len(entries) \/ st.error THEN st
    ELSE UnbindEachSource(
            UnbindEachProperty(st, self, targetCallback, entries[i][1], entries[i][2],
                               Keys(st.propertyMaps[entries[i][2]]), 1),
            self, targetCallback, entries, i + 1)

\* unbind that removes nothing.
unbindNothing(st, self, targetCallback) == st

\* unbind that leaves the target in _targetToSourceDefinition.
unbindKeepingDefinition(st, self, targetCallback) ==
    IF ~Has(st.targetToSourceDefinition[self], targetCallback) THEN st
    ELSE UnbindEachSource(st, self, targetCallback, st.sourcePropertyToTarget[self], 1)

\* unbind that throws for a target that is not bound.
unbindUnknownThrows(st, self, targetCallback) ==
    IF ~Has(st.targetToSourceDefinition[self], targetCallback) THEN Throw(st, "Error")
    ELSE UnbindEachSource(
            [st EXCEPT !.targetToSourceDefinition[self] = Delete(@, targetCallback)],
            self, targetCallback, st.sourcePropertyToTarget[self], 1)

unbind(st, self, targetCallback) ==
    IF ~Has(st.targetToSourceDefinition[self], targetCallback) THEN st
    ELSE UnbindEachSource(
            [st EXCEPT !.targetToSourceDefinition[self] = Delete(@, targetCallback)],
            self, targetCallback, st.sourcePropertyToTarget[self], 1)

(* --------------------------- state machine ----------------------------- *)

NoOp == [kind |-> "new", self |-> None, emitter |-> None, eventName |-> None,
         callback |-> None, args |-> <<>>, afterStop |-> FALSE, afterOff |-> {}]

Call(kind, self, emitter, eventName, callback) ==
    [NoOp EXCEPT !.kind = kind, !.self = self, !.emitter = emitter,
                 !.eventName = eventName, !.callback = callback]

State == [events |-> events, subscribedEmitters |-> subscribedEmitters,
          error |-> error, calls |-> <<>>,
          observables |-> observables, accessors |-> accessors,
          targetToSourceDefinition |-> targetToSourceDefinition,
          sourcePropertyToTarget |-> sourcePropertyToTarget,
          propertyMaps |-> propertyMaps, listeners |-> listeners,
          thrown |-> None, targetCalls |-> <<>>, fired |-> <<>>, unbinds |-> <<>>,
          deleted |-> <<>>, dispatches |-> <<>>, deepest |-> 0, listens |-> {},
          binds |-> {}]

\* A target that is not bound, or was not called since it was bound.
NeverCalled == [called |-> FALSE, args |-> <<>>]

\* The most recent call of every target that is bound when the operation ends.
Latest(st) ==
    [t \in AllTargets |->
        IF \A o \in Observables : ~Has(st.targetToSourceDefinition[o], t)
        THEN NeverCalled
        ELSE IF \E i \in 1..Len(st.targetCalls) : st.targetCalls[i].target = t
        THEN [called |-> TRUE,
              args   |-> st.targetCalls[CHOOSE i \in 1..Len(st.targetCalls) :
                            /\ st.targetCalls[i].target = t
                            /\ \A j \in (i + 1)..Len(st.targetCalls) :
                                  st.targetCalls[j].target # t].args]
        ELSE latest[t]]

\* The <<emitter, eventName, callback>> the event lists hold.
Registrations(evs) ==
    UNION {UNION {{<<e, evs[e][i][1], evs[e][i][2][j]>> : j \in 1..Len(evs[e][i][2])} :
                    i \in 1..Len(evs[e])} :
            e \in Objects}

\* The registrations that left the event lists while a dispatch was running,
\* until the callback is registered again.
Unregistered(st) ==
    (unregistered \cup (IF st.deepest > 0 THEN Registrations(events) ELSE {}))
        \ Registrations(st.events)

Commit(st) ==
    /\ events' = st.events
    /\ unregistered' = Unregistered(st)
    /\ subscribedEmitters' = st.subscribedEmitters
    /\ error' = st.error
    /\ calls' = st.calls
    /\ depth' = st.deepest

\* The callback list of an event, empty when the event is unknown.
ListOf(evs, emitter, eventName) ==
    IF Has(evs[emitter], eventName) THEN Get(evs[emitter], eventName) ELSE <<>>

\* The callbacks a listener's bookkeeping holds for an emitter.
SubscribedOf(subs, self, emitter) ==
    IF Has(subs[self], emitter) THEN Get(subs[self], emitter) ELSE <<>>

RECURSIVE SumLen(_, _)
SumLen(map, i) == IF i > Len(map) THEN 0 ELSE Len(map[i][2]) + SumLen(map, i + 1)

\* The callbacks held by the event lists, or by the bookkeeping, of all emitters.
RECURSIVE Held(_, _)
Held(maps, emitters) ==
    IF emitters = {} THEN 0
    ELSE LET e == CHOOSE x \in emitters : TRUE
         IN  SumLen(maps[e], 1) + Held(maps, emitters \ {e})

CanListen(self, emitter, eventName, callback, max) ==
    /\ ~error
    /\ Held(events, Emitters) < max
    /\ Held(subscribedEmitters, Emitters) < max
    /\ Cardinality(registered \cup {<<self, emitter, eventName, callback>>}) <= max

Init ==
    /\ events = [e \in Objects |-> <<>>]
    /\ subscribedEmitters = [e \in Objects |-> <<>>]
    /\ error = FALSE
    /\ calls = <<>>
    /\ op = NoOp
    /\ registered = {}
    /\ lastStop = NoOp
    /\ halted = {}
    /\ detached = {}
    /\ depth = 0
    /\ unregistered = {}
    /\ observables = [o \in Observables |-> <<>>]
    /\ accessors = {}
    /\ targetToSourceDefinition = [o \in Observables |-> <<>>]
    /\ sourcePropertyToTarget = [o \in Observables |-> <<>>]
    /\ propertyMaps = <<>>
    /\ listeners = <<>>
    /\ thrown = None
    /\ targetCalls = <<>>
    /\ fired = <<>>
    /\ unbinds = <<>>
    /\ declared = {}
    /\ released = {}
    /\ survivors = {}
    /\ rebound = {}
    /\ latest = [t \in AllTargets |-> NeverCalled]

ListenTo(self, emitter, eventName, callback) ==
    /\ Commit(listenTo(State, self, emitter, eventName, callback))
    /\ op' = Call("listenTo", self, emitter, eventName, callback)
    /\ registered' = registered \cup {<<self, emitter, eventName, callback>>}
    /\ lastStop' = NoOp
    /\ detached' = detached \ {<<emitter, eventName, callback>>}
    /\ UNCHANGED <<halted, observableVars>>

On(self, eventName, callback) ==
    /\ Commit(on(State, self, eventName, callback))
    /\ op' = Call("on", self, self, eventName, callback)
    /\ registered' = registered \cup {<<self, self, eventName, callback>>}
    /\ lastStop' = NoOp
    /\ detached' = detached \ {<<self, eventName, callback>>}
    /\ UNCHANGED <<halted, observableVars>>

\* TRUE when the dispatch that recorded these calls was cut short by event.stop().
Stopped(recorded) ==
    /\ Len(recorded) > 0
    /\ CallCallback(recorded[Len(recorded)].callback, recorded[Len(recorded)].event).stop

\* The callbacks that signalled event.off() in the recorded dispatch of the
\* list, every registration of which the dispatch reached.
Detaching(recorded, list) ==
    {c \in Callbacks :
        /\ \E i \in 1..Len(recorded) :
              /\ recorded[i].callback = c
              /\ CallCallback(c, recorded[i].event).off
        /\ \A j \in 1..Len(list) : list[j] = c => j <= Len(recorded)}

Fire(self, eventName, args) ==
    /\ ~error
    /\ LET st == fire(State, self, eventName, args)
       IN  /\ Commit(st)
           /\ registered' = registered \cup st.listens
           /\ halted' = IF Stopped(st.calls)
                         THEN halted \cup {<<self, eventName>>}
                         ELSE halted \ {<<self, eventName>>}
           /\ detached' = detached \cup
                ({self} \X {eventName} \X Detaching(st.calls, ListOf(events, self, eventName)))
    /\ op' = [Call("fire", self, self, eventName, None) EXCEPT
                !.args = args,
                !.afterStop = <<self, eventName>> \in halted,
                !.afterOff = {c \in Callbacks : <<self, eventName, c>> \in detached}]
    /\ UNCHANGED <<lastStop, observableVars>>

StopListening(self, emitter, eventName, callback) ==
    /\ ~error
    /\ Commit(stopListening(State, self, emitter, eventName, callback))
    /\ op' = Call("stopListening", self, emitter, eventName, callback)
    /\ lastStop' = op'
    /\ UNCHANGED <<registered, halted, detached, observableVars>>

StopListeningAll(self) == StopListening(self, None, None, None)

StopListeningEmitter(self, emitter) == StopListening(self, emitter, None, None)

StopListeningEventName(self, emitter, eventName) ==
    StopListening(self, emitter, eventName, None)

StopListeningCallback(self, emitter, eventName, callback) ==
    StopListening(self, emitter, eventName, callback)

Off(self, eventName, callback) ==
    /\ ~error
    /\ Commit(off(State, self, eventName, callback))
    /\ op' = Call("off", self, self, eventName, callback)
    /\ lastStop' = op'
    /\ UNCHANGED <<registered, halted, detached, observableVars>>

\* The program state after an operation of an Observable.
ObservableCommit(st) ==
    /\ Commit(st)
    /\ observables' = st.observables
    /\ accessors' = st.accessors
    /\ targetToSourceDefinition' = st.targetToSourceDefinition
    /\ sourcePropertyToTarget' = st.sourcePropertyToTarget
    /\ propertyMaps' = st.propertyMaps
    /\ listeners' = st.listeners
    /\ thrown' = st.thrown
    /\ targetCalls' = st.targetCalls
    /\ fired' = st.fired
    /\ unbinds' = st.unbinds
    /\ latest' = Latest(st)

\* The <<observable, target>> the callbacks of the operation have unbound.
Unbound(st) == {<<st.unbinds[i].self, st.unbinds[i].target>> : i \in 1..Len(st.unbinds)}

\* The bindings in force that the callbacks of the operation have removed.
Dropped(st) == {r \in declared : <<r[1], r[2]>> \in Unbound(st)}

\* The <<observable, target>> the callbacks of the operation have bound.
BoundInside(st) == {<<r[1], r[2]>> : r \in st.binds}

\* The history of the bindings after a write, whose callbacks may have called unbind.
Written(st) ==
    /\ declared' = (declared \ Dropped(st)) \cup st.binds
    /\ released' = {r \in released : <<r[1], r[2]>> \notin BoundInside(st)}
                        \cup Dropped(st)
    /\ rebound' = (rebound \ Unbound(st))
                    \cup {b \in BoundInside(st) : \E r \in released : <<r[1], r[2]>> = b}
    /\ survivors' = IF Dropped(st) = {} THEN survivors
                     ELSE {<<r[1], r[2]>> : r \in declared \ Dropped(st)}

ObservableCall(kind, self, name, value, targetCallback, properties) ==
    [kind |-> kind, self |-> self, name |-> name, value |-> value,
     targetCallback |-> targetCallback, properties |-> properties, again |-> FALSE]

Set(self, name, value) ==
    /\ ~error
    /\ LET st == set(State, self, name, value)
       IN  ObservableCommit(st) /\ Written(st)
    /\ op' = [ObservableCall("set", self, name, value, None, <<>>) EXCEPT
                !.again = (/\ op.kind = "set"
                           /\ op.self = self
                           /\ op.name = name
                           /\ op.value = value)]
    /\ UNCHANGED <<registered, lastStop, halted, detached>>

\* observable.name = value, once set() has defined the accessor.
Assign(self, name, value) ==
    /\ ~error
    /\ <<self, name>> \in accessors
    /\ LET st == setter(State, self, name, value)
       IN  ObservableCommit(st) /\ Written(st)
    /\ op' = ObservableCall("assign", self, name, value, None, <<>>)
    /\ UNCHANGED <<registered, lastStop, halted, detached>>

\* bind().to() is called while fewer than max change listeners were created,
\* or when it creates none.
CanBind(self, targetCallback, properties, max) ==
    /\ ~error
    /\ \/ Len(listeners) < max
       \/ Len(bind(State, self, targetCallback, properties).listeners) = Len(listeners)

\* The history of the bindings after bind().to() has returned or thrown.
Bound(self, targetCallback, properties, st) ==
    /\ declared' = IF st.error THEN declared
                    ELSE (declared \ Dropped(st))
                            \cup {<<self, targetCallback, properties>>} \cup st.binds
    /\ released' = IF st.error THEN released
                    ELSE {r \in released : /\ ~(r[1] = self /\ r[2] = targetCallback)
                                           /\ <<r[1], r[2]>> \notin BoundInside(st)}
                            \cup Dropped(st)
    /\ rebound' = IF st.error THEN rebound \ Unbound(st)
                   ELSE (rebound \ Unbound(st))
                            \cup {b \in BoundInside(st) \cup {<<self, targetCallback>>} :
                                    \E r \in released : <<r[1], r[2]>> = b}

Bind(self, targetCallback, properties) ==
    /\ LET st == bind(State, self, targetCallback, properties)
       IN  /\ ObservableCommit(st)
           /\ Bound(self, targetCallback, properties, st)
    /\ op' = ObservableCall("bind", self, None, None, targetCallback, properties)
    /\ UNCHANGED <<registered, lastStop, halted, detached, survivors>>

\* binder.to( ...properties ) on a binder that bind( targetCallback ) returned
\* while the target was not bound: bind checks the target, to() does not.
To(self, targetCallback, properties) ==
    /\ LET st == to(State, self, targetCallback, properties)
       IN  /\ ObservableCommit(st)
           /\ declared' = IF st.error THEN declared
                           ELSE {r \in declared \ Dropped(st) :
                                    ~(r[1] = self /\ r[2] = targetCallback)}
                                \cup {<<self, targetCallback, properties>>}
           /\ released' = IF st.error THEN released
                           ELSE {r \in released : ~(r[1] = self /\ r[2] = targetCallback)}
                                    \cup Dropped(st)
           /\ rebound' = rebound \ Unbound(st)
    /\ op' = ObservableCall("to", self, None, None, targetCallback, properties)
    /\ UNCHANGED <<registered, lastStop, halted, detached, survivors>>

\* The last operation was a bind of the target that threw this message.
HasJustThrown(self, targetCallback, message) ==
    /\ op.kind = "bind"
    /\ op.self = self
    /\ op.targetCallback = targetCallback
    /\ thrown = message

\* expect( () => observable.bind( callback ).to( ... ) ).to.throw( ... ): the
\* Error of bind or to is caught by the caller and the program goes on.
TryBind(self, targetCallback, properties) ==
    /\ LET st == bind(State, self, targetCallback, properties)
       IN  /\ ObservableCommit([st EXCEPT !.error = FALSE])
           /\ Bound(self, targetCallback, properties, st)
    /\ op' = [ObservableCall("bind", self, None, None, targetCallback, properties) EXCEPT
                !.again = HasJustThrown(self, targetCallback, "Invalid source definition.")]
    /\ UNCHANGED <<registered, lastStop, halted, detached, survivors>>

Unbind(self, targetCallback) ==
    /\ ~error
    /\ ObservableCommit(unbind(State, self, targetCallback))
    /\ op' = ObservableCall("unbind", self, None, None, targetCallback, <<>>)
    /\ LET removed == {r \in declared : r[1] = self /\ r[2] = targetCallback}
       IN  /\ declared' = declared \ removed
           /\ released' = released \cup removed
           /\ survivors' = IF removed = {} THEN survivors
                            ELSE {<<r[1], r[2]>> : r \in declared \ removed}
    /\ rebound' = rebound \ {<<self, targetCallback>>}
    /\ UNCHANGED <<registered, lastStop, halted, detached>>

\* Dispatch: emitterA listens to itself and to emitterB, with callbacks that
\* signal stop and off.
DispatchCallbacks == {"spy1", "spy2", "stopSpy", "offSpy"}

OnInputs == ({"something"} \X DispatchCallbacks) \cup {<<"other", "spy1">>}

Next ==
    \/ \E r \in OnInputs :
            /\ CanListen("emitterA", "emitterA", r[1], r[2], MaxListen)
            /\ On("emitterA", r[1], r[2])
    \/ \E c \in {"spy1", "offSpy"} :
            /\ CanListen("emitterA", "emitterB", "something", c, MaxListen)
            /\ ListenTo("emitterA", "emitterB", "something", c)
    \/ \E e \in {"emitterA", "emitterB"}, n \in EventNames, a \in FireArgs : Fire(e, n, a)

Spec == Init /\ [][Next]_vars

\* Off and stop in one call: emitterA listens to itself with plain spies, a
\* callback that signals stop and one that signals off and stop.
OffStopCallbacks == {"spy1", "spy2", "stopSpy", "offStopSpy"}

NextOffStop ==
    \/ \E c \in OffStopCallbacks :
            /\ CanListen("emitterA", "emitterA", "something", c, MaxListen)
            /\ On("emitterA", "something", c)
    \/ Fire("emitterA", "something", <<>>)

SpecOffStop == Init /\ [][NextOffStop]_vars

\* Registering and unregistering during a dispatch: emitterA listens to itself
\* with spy1 and with spies that call on, off and stopListening, emitterC
\* listens to emitterA; a dispatch starts while no more registrations are held.
SnapshotInputs ==
    ({"emitterA"} \X ({"spy1", "stopSpy"} \cup ReentrantCallbacks))
    \cup {<<"emitterC", "spy3">>}

NextSnapshot ==
    \/ \E r \in SnapshotInputs :
            /\ CanListen(r[1], "emitterA", "something", r[2], MaxListen)
            /\ ListenTo(r[1], "emitterA", "something", r[2])
    \/ /\ Held(events, Emitters) <= MaxListen
       /\ Fire("emitterA", "something", <<>>)

SpecSnapshot == Init /\ [][NextSnapshot]_vars

\* Subscriptions: emitterA listens to emitterB and to itself, emitterC listens
\* to emitterB, each with its own spies; emitterA stops listening in all forms.
ListenInputs ==
    ({"emitterA"} \X {"emitterB"} \X EventNames \X {"spy1", "spy2"})
    \cup ({"emitterA"} \X {"emitterA"} \X {"something"} \X {"spy2"})
    \cup ({"emitterC"} \X {"emitterB"} \X {"something"} \X {"spy3"})

NextStop ==
    \/ \E r \in ListenInputs :
            /\ CanListen(r[1], r[2], r[3], r[4], MaxSubscribed)
            /\ ListenTo(r[1], r[2], r[3], r[4])
    \/ StopListeningAll("emitterA")
    \/ \E e \in Emitters : StopListeningEmitter("emitterA", e)
    \/ \E e \in {"emitterA", "emitterB"}, n \in EventNames :
            StopListeningEventName("emitterA", e, n)
    \/ \E n \in EventNames, c \in PlainSpies :
            StopListeningCallback("emitterA", "emitterB", n, c)
    \/ \E c \in {"spy1", "spy2"} : Off("emitterA", "something", c)
    \/ \E e \in {"emitterA", "emitterB"}, n \in EventNames : Fire(e, n, <<>>)

SpecStop == Init /\ [][NextStop]_vars

\* Reactive properties: foo and bar of observableA are set and assigned, a spy
\* listens to change:foo.
SetInputs == ({"foo"} \X Values) \cup {<<"bar", "a">>}

NextSet ==
    \/ \E r \in SetInputs : Set("observableA", r[1], r[2])
    \/ \E v \in {"a", "b"} : Assign("observableA", "foo", v)
    \/ /\ ~error
       /\ <<"observableA", "observableA", "change:foo", "spy3">> \notin registered
       /\ On("observableA", "change:foo", "spy3")

SpecSet == Init /\ [][NextSet]_vars

\* Writing during a dispatch: spy3 and spies that set foo of observableA to a
\* fixed value listen to change:foo of observableA, foo is set.
NestedCallbacks == {"spy3", "setSpy", "setNaNSpy"}

NextNested ==
    \/ \E c \in NestedCallbacks :
            /\ ~error
            /\ <<"observableA", "observableA", "change:foo", c>> \notin registered
            /\ On("observableA", "change:foo", c)
    \/ \E v \in Values : Set("observableA", "foo", v)

SpecNested == Init /\ [][NextNested]_vars

\* Bindings: observable binds spy1 and spy2 to properties of observableA and
\* observableB, which are set and assigned; a spy listens to change:foo of
\* observableA.
Declarations ==
    ({"spy1"} \X { <<"observableA", "foo">>,
                   <<"observableA", "foo", "observableB", "foo">>,
                   <<"observableA", "bar", "observableB", "foo", "observableA", "foo">> })
    \cup ({"spy2"} \X { <<"observableA", "foo">>, <<"observableA", "bar">> })

NextObservable ==
    \/ \E o \in {"observableA", "observableB"} : Set(o, "foo", "a")
    \/ Assign("observableA", "foo", "b")
    \/ \E d \in Declarations :
            /\ CanBind("observable", d[1], d[2], MaxBind)
            /\ Bind("observable", d[1], d[2])
    \/ \E t \in Targets : Unbind("observable", t)
    \/ /\ ~error
       /\ <<"observableA", "observableA", "change:foo", "spy3">> \notin registered
       /\ On("observableA", "change:foo", "spy3")

SpecObservable == Init /\ [][NextObservable]_vars

\* Binders: observable holds binders of spy1 and spy2, obtained from bind
\* before the targets were bound, and calls to() on them any number of times;
\* the targets are unbound and foo of observableA is set.
BinderDeclarations ==
    ({"spy1"} \X { <<"observableA", "foo">>, <<"observableA", "bar">>,
                   <<"observableB", "foo">> })
    \cup ({"spy2"} \X { <<"observableA", "foo">> })

NextBinder ==
    \/ \E d \in BinderDeclarations :
            /\ ~error
            /\ \/ Len(listeners) < MaxBind
               \/ Len(to(State, "observable", d[1], d[2]).listeners) = Len(listeners)
            /\ To("observable", d[1], d[2])
    \/ \E t \in Targets : Unbind("observable", t)
    \/ Set("observableA", "foo", "a")

SpecBinder == Init /\ [][NextBinder]_vars

\* Errors: observable binds spy1 and spy2 with valid and invalid source lists
\* and with a target that is bound already, the caller catching the Error;
\* foo of observableA is set and assigned, a spy listens to change:foo.
InvalidSources ==
    { <<>>, <<"observable">>, <<"foo">>, <<"observable", "observable">>, <<"foo", "bar">>,
      <<"emitterA", "foo">>, <<"observableA", "foo", "bar">>,
      <<"observableA", "foo", "foo", "bar">> }

ErrorDeclarations ==
    ({"spy1"} \X ({ <<"observableA", "foo">>, <<"observableA", "bar">> } \cup InvalidSources))
    \cup ({"spy2"} \X { <<"observableA", "foo">>, <<"foo">> })

NextErrors ==
    \/ \E d \in ErrorDeclarations :
            /\ CanBind("observable", d[1], d[2], MaxBind)
            /\ TryBind("observable", d[1], d[2])
    \/ \E t \in Targets : Unbind("observable", t)
    \/ Set("observableA", "foo", "a")
    \/ Assign("observableA", "foo", "b")
    \/ /\ ~error
       /\ <<"observableA", "observableA", "change:foo", "spy3">> \notin registered
       /\ On("observableA", "change:foo", "spy3")

SpecErrors == Init /\ [][NextErrors]_vars

\* Binding during a dispatch: observable binds bindSpy, which binds spy2 to foo
\* of observableA whenever it is called, and spy1 to foo of observableA, whose
\* properties are set; the targets are unbound between the changes.
InsideDeclarations ==
    {"observable"} \X {"bindSpy", "spy1"} \X { <<"observableA", "foo">> }

NextInside ==
    \/ \E d \in InsideDeclarations :
            /\ CanBind(d[1], d[2], d[3], MaxBind)
            /\ Bind(d[1], d[2], d[3])
    \/ \E n \in Properties, v \in {"a", "b"} : Set("observableA", n, v)
    \/ \E t \in {"bindSpy", "spy1", "spy2"} : Unbind("observable", t)

SpecInside == Init /\ [][NextInside]_vars

\* Unbinding during a dispatch: unbindSpy, which calls observable.unbind( spy1 ),
\* listens to change:foo of observableA and is bound to foo of observableA
\* through observableB; observable binds spy1 and spy2 to properties of
\* observableA, which are set and assigned.
ReentrantDeclarations ==
    ({"observable"} \X {"spy1"} \X { <<"observableA", "foo">>,
                                      <<"observableA", "foo", "observableA", "bar">> })
    \cup {<<"observable", "spy2", <<"observableA", "foo">>>>,
          <<"observableB", "unbindSpy", <<"observableA", "foo">>>>}

NextReentrant ==
    \/ /\ ~error
       /\ <<"observableA", "observableA", "change:foo", "unbindSpy">> \notin registered
       /\ On("observableA", "change:foo", "unbindSpy")
    \/ \E d \in ReentrantDeclarations :
            /\ CanBind(d[1], d[2], d[3], MaxBind)
            /\ Bind(d[1], d[2], d[3])
    \/ \E n \in Properties : Set("observableA", n, "a")
    \/ Assign("observableA", "foo", "b")
    \/ Unbind("observable", "spy2")
    \/ Unbind("observableB", "unbindSpy")

SpecReentrant == Init /\ [][NextReentrant]_vars

(* ------------------------------- claims -------------------------------- *)

CalledCallbacks(recorded) == [i \in 1..Len(recorded) |-> recorded[i].callback]

Elements(list) == {list[i] : i \in 1..Len(list)}

SignalsStop(callback, eventName) == CallCallback(callback, EmitterEvent(eventName)).stop

SignalsOff(callback, eventName) == CallCallback(callback, EmitterEvent(eventName)).off

\* The positions of the list a dispatch reaches: all of them, or those up to the
\* first callback that signals stop.
Reached(list, eventName) ==
    LET stoppers == {i \in 1..Len(list) : SignalsStop(list[i], eventName)}
    IN  IF stoppers = {} THEN Len(list)
        ELSE CHOOSE i \in stoppers : \A j \in stoppers : i <= j

\* The list without the elements at the given positions.
WithoutPositions(list, positions) ==
    LET kept == (1..Len(list)) \ positions
    IN  [k \in 1..Cardinality(kept) |->
            list[CHOOSE i \in kept : Cardinality({j \in kept : j < i}) = k - 1]]

\* The list without the first occurrence of the element.
WithoutFirst(list, element) ==
    IF element \in Elements(list)
    THEN WithoutPositions(list, {CHOOSE i \in 1..Len(list) :
            list[i] = element /\ \A j \in 1..(i - 1) : list[j] # element})
    ELSE list

\* Only self has ever registered the callback for the event of the emitter.
RegisteredOnlyBy(self, emitter, eventName, callback) ==
    /\ <<self, emitter, eventName, callback>> \in registered
    /\ \A r \in registered :
          (r[2] = emitter /\ r[3] = eventName /\ r[4] = callback) => r[1] = self

\* C1: on( N, callback ) appends the callback to the list of N, and fire( N, ...args )
\* on a list of callbacks that signal nothing calls each of them exactly once, in
\* the order of the list, each with a fresh event of name N followed by the args.
C1_FireCallsInRegistrationOrder ==
    [][LET list == ListOf(events, op'.self, op'.eventName)
       IN  /\ op'.kind = "on" =>
                ListOf(events', op'.self, op'.eventName) = Append(list, op'.callback)
           /\ (op'.kind = "fire" /\ Elements(list) \subseteq PlainSpies) =>
                calls' = [i \in 1..Len(list) |->
                            [callback |-> list[i],
                             event    |-> [name |-> op'.eventName,
                                           stop |-> FALSE, off |-> FALSE],
                             args     |-> op'.args]]
      ]_vars

\* spy2 was registered before spy1 with on, and fire with arguments called both.
C1_Witness ==
    /\ op.kind = "fire"
    /\ op.self = "emitterA"
    /\ op.args = <<"obj", 1, "a", TRUE>>
    /\ CalledCallbacks(calls) = <<"spy2", "spy1">>
    /\ \A r \in registered : r[1] = r[2]

\* C2: every callback that emitter.fire( N ) calls was passed to a
\* listenTo( emitter, N, callback ): a callback registered with a.listenTo( b, N, cb )
\* only is called neither by b.fire of another name nor by a.fire( N ).
C2_CalledOnlyByItsEmitterAndEvent ==
    op.kind = "fire" =>
        \A i \in 1..Len(calls) :
            \E r \in registered :
                r[2] = op.self /\ r[3] = op.eventName /\ r[4] = calls[i].callback

\* emitterA fired an event it listens to on emitterB: its own callback was called,
\* the one registered on emitterB was not.
C2_Witness ==
    /\ op.kind = "fire"
    /\ op.self = "emitterA"
    /\ Len(calls) > 0
    /\ \E c \in Callbacks :
          /\ <<"emitterA", "emitterB", op.eventName, c>> \in registered
          /\ c \in Elements(ListOf(events, "emitterB", op.eventName))
          /\ c \notin Elements(CalledCallbacks(calls))

\* C3: fire( N ) calls the callbacks of N from the first one up to the first one that
\* signals event.stop() and none after it, whether or not the previous fire( N ) was
\* stopped.
C3_StopHaltsThisDispatchOnly ==
    [][op'.kind = "fire" =>
          LET list == ListOf(events, op'.self, op'.eventName)
          IN  CalledCallbacks(calls') = SubSeq(list, 1, Reached(list, op'.eventName))
      ]_vars

\* A fire that follows a stopped fire of the same event called the first callback
\* and the stopping one again, and not the callback registered after it.
C3_Witness ==
    /\ op.kind = "fire"
    /\ op.afterStop
    /\ Len(calls) = 2
    /\ Stopped(calls)
    /\ Len(ListOf(events, op.self, op.eventName)) = 3

\* C4: a fire( N ) that no callback stops calls every callback of N, the ones
\* after a callback that signals event.off() included; after any fire( N ) the
\* list of N is the list before it without the called callbacks that signalled
\* off; and a later fire( N ) does not call a callback that detached itself.
C4_OffDetachesForLaterDispatches ==
    /\ [](op.kind = "fire" => op.afterOff \cap Elements(CalledCallbacks(calls)) = {})
    /\ [][op'.kind = "fire" =>
            LET list    == ListOf(events, op'.self, op'.eventName)
                reached == Reached(list, op'.eventName)
            IN  /\ reached = Len(list) => CalledCallbacks(calls') = list
                /\ ListOf(events', op'.self, op'.eventName) =
                     WithoutPositions(list,
                        {i \in 1..reached : SignalsOff(list[i], op'.eventName)})
        ]_vars

\* A fire that follows the fire in which offSpy detached itself called the two
\* other callbacks.
C4_Witness ==
    /\ op.kind = "fire"
    /\ op.afterOff = {"offSpy"}
    /\ Len(calls) = 2
    /\ "offSpy" \in {r[4] : r \in {x \in registered : x[2] = op.self /\ x[3] = op.eventName}}

\* C5: after self.stopListening() (and before the next listenTo) no fire calls a
\* callback that self registered.
C5_StopListeningAllSilencesListener ==
    (/\ op.kind = "fire"
     /\ lastStop.kind = "stopListening"
     /\ lastStop.emitter = None) =>
        \A i \in 1..Len(calls) :
            ~RegisteredOnlyBy(lastStop.self, op.self, op.eventName, calls[i].callback)

\* C6: after self.stopListening( b ) (and before the next listenTo) b.fire calls no
\* callback that self registered on b, and the call leaves the event lists of the
\* other emitters and the bookkeeping of self for the other emitters as they were.
C6_StopListeningEmitterSilencesEmitter ==
    /\ []((/\ op.kind = "fire"
           /\ lastStop.kind = "stopListening"
           /\ lastStop.emitter = op.self
           /\ lastStop.eventName = None) =>
              \A i \in 1..Len(calls) :
                  ~RegisteredOnlyBy(lastStop.self, op.self, op.eventName, calls[i].callback))
    /\ [][(op'.kind = "stopListening" /\ op'.emitter # None /\ op'.eventName = None) =>
            \A e \in Emitters \ {op'.emitter} :
                /\ events'[e] = events[e]
                /\ SubscribedOf(subscribedEmitters', op'.self, e) =
                     SubscribedOf(subscribedEmitters, op'.self, e)
        ]_vars

\* C7: after self.stopListening( b, N ) (and before the next listenTo) b.fire( N )
\* calls no callback that self registered for N on b, and the call leaves the
\* lists of the other event names of b as they were.
C7_StopListeningEventSilencesEvent ==
    /\ []((/\ op.kind = "fire"
           /\ lastStop.kind = "stopListening"
           /\ lastStop.emitter = op.self
           /\ lastStop.eventName = op.eventName
           /\ lastStop.callback = None) =>
              \A i \in 1..Len(calls) :
                  ~RegisteredOnlyBy(lastStop.self, op.self, op.eventName, calls[i].callback))
    /\ [][(op'.kind = "stopListening" /\ op'.eventName # None /\ op'.callback = None) =>
            \A n \in EventNames \ {op'.eventName} :
                ListOf(events', op'.emitter, n) = ListOf(events, op'.emitter, n)
        ]_vars

\* C8: self.stopListening( b, N, cb ) for a cb that self registered for N on b and
\* that the list of N holds removes the first cb from the list of N and from the
\* bookkeeping of self for b, deletes a list it empties, and leaves every other
\* list as it was.
C8_StopListeningCallbackRemovesOne ==
    [][(/\ op'.kind = "stopListening"
        /\ op'.callback # None
        /\ RegisteredOnlyBy(op'.self, op'.emitter, op'.eventName, op'.callback)
        /\ op'.callback \in Elements(ListOf(events, op'.emitter, op'.eventName))) =>
          LET list       == WithoutFirst(ListOf(events, op'.emitter, op'.eventName),
                                         op'.callback)
              subscribed == WithoutFirst(
                                SubscribedOf(subscribedEmitters, op'.self, op'.emitter),
                                op'.callback)
          IN  /\ ListOf(events', op'.emitter, op'.eventName) = list
              /\ Has(events'[op'.emitter], op'.eventName) <=> list # <<>>
              /\ SubscribedOf(subscribedEmitters', op'.self, op'.emitter) = subscribed
              /\ Has(subscribedEmitters'[op'.self], op'.emitter) <=> subscribed # <<>>
              /\ \A e \in Emitters, n \in EventNames :
                    <<e, n>> # <<op'.emitter, op'.eventName>> =>
                        ListOf(events', e, n) = ListOf(events, e, n)
              /\ \A s \in Emitters, e \in Emitters :
                    <<s, e>> # <<op'.self, op'.emitter>> =>
                        SubscribedOf(subscribedEmitters', s, e) =
                            SubscribedOf(subscribedEmitters, s, e)
      ]_vars

\* C9: stopListening( emitter, N, cb ) and off( N, cb ) with a callback that was
\* never registered, on a subscribed emitter whose list of N holds callbacks,
\* change neither the event lists nor the bookkeeping and throw nothing.
C9_UnregisteredCallbackIsNoOp ==
    [][(/\ op'.kind \in {"stopListening", "off"}
        /\ op'.callback # None
        /\ \A r \in registered : r[4] # op'.callback
        /\ Has(subscribedEmitters[op'.self], op'.emitter)
        /\ ListOf(events, op'.emitter, op'.eventName) # <<>>) =>
          /\ events' = events
          /\ subscribedEmitters' = subscribedEmitters
          /\ ~error'
      ]_vars

\* C10: stopListening called while the caller's bookkeeping is empty, with an
\* emitter the bookkeeping does not hold, or with an event name the emitter does
\* not know, changes neither the event lists nor the bookkeeping and throws nothing.
C10_StopListeningWithoutTargetIsNoOp ==
    [][(/\ op'.kind = "stopListening"
        /\ \/ Len(subscribedEmitters[op'.self]) = 0
           \/ op'.emitter # None /\ ~Has(subscribedEmitters[op'.self], op'.emitter)
           \/ op'.eventName # None /\ ~Has(events[op'.emitter], op'.eventName)) =>
          /\ events' = events
          /\ subscribedEmitters' = subscribedEmitters
          /\ ~error'
      ]_vars

\* emitterA, which listens to emitterB, stopped listening to an event name that
\* was never registered on emitterB.
C10_Witness ==
    /\ op.kind = "stopListening"
    /\ op.emitter = "emitterB"
    /\ op.eventName # None
    /\ Has(subscribedEmitters[op.self], op.emitter)
    /\ \A r \in registered : ~(r[2] = op.emitter /\ r[3] = op.eventName)
    /\ ~error

\* C11: listenTo( emitter, N, cb ) adds one occurrence of cb to the list of N,
\* whether or not the list holds cb already; fire( N ) calls a plain callback as
\* many times as the list holds it; and stopListening( emitter, N, cb ), for a cb
\* that only the caller registered for N on the emitter and that the list holds k
\* times, leaves k - 1 occurrences.
C11_EachRegistrationRemovedAlone ==
    [][LET list == ListOf(events, op'.emitter, op'.eventName)
       IN  /\ op'.kind = "listenTo" =>
                Count(ListOf(events', op'.emitter, op'.eventName), op'.callback) =
                    Count(list, op'.callback) + 1
           /\ op'.kind = "fire" =>
                \A c \in PlainSpies : Count(CalledCallbacks(calls'), c) = Count(list, c)
           /\ (/\ op'.kind = "stopListening"
               /\ op'.callback # None
               /\ RegisteredOnlyBy(op'.self, op'.emitter, op'.eventName, op'.callback)
               /\ Count(list, op'.callback) >= 1) =>
                Count(ListOf(events', op'.emitter, op'.eventName), op'.callback) =
                    Count(list, op'.callback) - 1
      ]_vars

\* C12: set( name, v ) and the assignment name = v store v and fire change:name
\* once, with the payload ( v, previous value ), when v is not strictly equal to
\* the stored value; otherwise they fire nothing and leave the stored values as
\* they were.
C12_WriteStoresAndFiresOnce ==
    [][op'.kind \in {"set", "assign"} =>
          LET stored == Get(observables[op'.self], op'.name)
          IN  IF StrictEquals(stored, op'.value)
              THEN /\ fired' = <<>>
                   /\ observables' = observables
              ELSE /\ Get(observables'[op'.self], op'.name) = op'.value
                   /\ fired' = <<[self      |-> op'.self,
                                   eventName |-> "change:" \o op'.name,
                                   args      |-> <<op'.value, stored>>]>>
      ]_vars

\* C13: set( name, v ) called right after set( name, v ) on the same observable:
\* the two calls fire change:name exactly once in total.
C13_SetTwiceFiresOnce ==
    [][(/\ op.kind = "set"
        /\ op'.kind = "set"
        /\ op'.self = op.self
        /\ op'.name = op.name
        /\ op'.value = op.value) =>
          Len(fired) + Len(fired') = 1
      ]_vars

\* C13 as amended: for v other than NaN, the second of two set( name, v ) calls
\* in a row fires nothing and stores nothing, and the first fired at most once.
C13_SecondSetFiresNothing ==
    [][(/\ op.kind = "set"
        /\ op'.kind = "set"
        /\ op'.self = op.self
        /\ op'.name = op.name
        /\ op'.value = op.value
        /\ op'.value # "NaN") =>
          /\ fired' = <<>>
          /\ observables' = observables
          /\ Len(fired) <= 1
      ]_vars

\* set( 'foo', 'a' ) was called twice in a row on a property that held another
\* value, with a spy listening to change:foo.
C13_Witness ==
    /\ op.kind = "set"
    /\ op.again
    /\ op.value = "a"
    /\ ~error
    /\ fired = <<>>
    /\ Get(observables[op.self], op.name) = "a"
    /\ ListOf(events, op.self, "change:" \o op.name) = <<"spy3">>

\* C14: no call of set throws.
C14_RepeatedSetNeverThrows ==
    [][op'.kind = "set" => ~error']_vars

\* The <<source, property>> pairs of a source list, in the order of their first
\* declaration.
DeclaredPairs(properties) ==
    LET all  == [k \in 1..(Len(properties) \div 2) |->
                    <<properties[2 * k - 1], properties[2 * k]>>]
        kept == {k \in 1..Len(all) : \A j \in 1..(k - 1) : all[j] # all[k]}
    IN  WithoutPositions(all, (1..Len(all)) \ kept)

\* The value the property of a pair holds, undefined when it was never set.
ValueOf(obs, pair) == Get(obs[pair[1]], pair[2])

\* The calls of a target among the recorded target calls.
CallsOf(recorded, targetCallback) ==
    SelectSeq(recorded, LAMBDA call : call.target = targetCallback)

\* The arguments are the values of the pairs, one for each pair, in some order.
HoldsValuesOf(args, obs, pairs) ==
    /\ Len(args) = Len(pairs)
    /\ \A v \in Values :
          Count(args, v) = Cardinality({k \in 1..Len(pairs) : ValueOf(obs, pairs[k]) = v})

\* The last operation changed a property: the accessor fired its change event.
Changed(kind, log) == kind \in {"set", "assign"} /\ log # <<>>

\* C15: a bind( t ).to( ... ) that does not throw calls t exactly once, and no
\* other target, with the values its declared pairs hold, undefined for a
\* property that was never set.
C15_BindCallsTargetOnce ==
    [][(op'.kind = "bind" /\ ~error') =>
          /\ Len(targetCalls') = 1
          /\ targetCalls'[1].target = op'.targetCallback
          /\ HoldsValuesOf(targetCalls'[1].args, observables',
                           DeclaredPairs(op'.properties))
      ]_vars

\* A target was bound to a property that holds 'a' and to one never set.
C15_Witness ==
    /\ op.kind = "bind"
    /\ ~error
    /\ Len(targetCalls) = 1
    /\ Elements(targetCalls[1].args) = {None, "a"}

\* C16: a write that changes a property calls every bound target that declared
\* the ( source, property ) pair exactly once, with the values all its declared
\* pairs hold after the write.
C16_ChangeCallsTargetWithAllValues ==
    [][Changed(op'.kind, fired') =>
          \A r \in declared :
              <<op'.self, op'.name>> \in Elements(DeclaredPairs(r[3])) =>
                  LET mine == CallsOf(targetCalls', r[2])
                  IN  /\ Len(mine) = 1
                      /\ HoldsValuesOf(mine[1].args, observables', DeclaredPairs(r[3]))
      ]_vars

\* C17: every call of a bound target passes the values of its declared pairs in
\* the order of their declaration.
C17_ArgumentsInDeclaredOrder ==
    [][\A i \in 1..Len(targetCalls') :
          \A r \in declared' :
              r[2] = targetCalls'[i].target =>
                  targetCalls'[i].args =
                      [k \in 1..Len(DeclaredPairs(r[3])) |->
                          ValueOf(observables', DeclaredPairs(r[3])[k])]
      ]_vars

\* C18: a write that changes a property calls each of two distinct targets bound
\* to that ( source, property ) pair exactly once, and calls no bound target that
\* did not declare the pair.
C18_EachTargetOncePerChange ==
    [][Changed(op'.kind, fired') =>
          LET pair       == <<op'.self, op'.name>>
              dependents == {r \in declared : pair \in Elements(DeclaredPairs(r[3]))}
          IN  /\ \A r1 \in dependents, r2 \in dependents :
                    r1[2] # r2[2] =>
                        /\ Len(CallsOf(targetCalls', r1[2])) = 1
                        /\ Len(CallsOf(targetCalls', r2[2])) = 1
              /\ \A r \in declared \ dependents :
                    Len(CallsOf(targetCalls', r[2])) = 0
      ]_vars

\* C19: a write that changes a property does not call a target that was bound to
\* the property and then unbound (and not bound again).
C19_UnboundTargetIsNotCalled ==
    [][Changed(op'.kind, fired') =>
          \A r \in released :
              <<op'.self, op'.name>> \in Elements(DeclaredPairs(r[3])) =>
                  Len(CallsOf(targetCalls', r[2])) = 0
      ]_vars

\* foo of observableA changed after the target bound to it was unbound, while
\* another target was still bound to it and was called.
C19_Witness ==
    /\ Changed(op.kind, fired)
    /\ ~error
    /\ \E r \in released : <<op.self, op.name>> \in Elements(DeclaredPairs(r[3]))
    /\ Len(targetCalls) = 1

\* C20: a write that changes a property calls every target that was bound when
\* another target was unbound, has stayed bound since and declared the pair,
\* exactly once, with the values all its declared pairs hold after the write.
C20_OtherTargetsKeepBeingCalled ==
    [][Changed(op'.kind, fired') =>
          \A r \in declared :
              (/\ <<r[1], r[2]>> \in survivors
               /\ <<op'.self, op'.name>> \in Elements(DeclaredPairs(r[3]))) =>
                  LET mine == CallsOf(targetCalls', r[2])
                  IN  /\ Len(mine) = 1
                      /\ HoldsValuesOf(mine[1].args, observables', DeclaredPairs(r[3]))
      ]_vars

\* The target is bound on the observable: a bind().to() succeeded and no unbind followed.
IsBound(self, targetCallback) ==
    \E r \in declared : r[1] = self /\ r[2] = targetCallback

\* C21: bind( t ) for a target that is bound throws 'Cannot bind the same callback
\* twice.', calls no target and leaves the bindings, the change listeners and the
\* subscriptions as they were.
C21_BindTwiceThrowsAndKeepsBinding ==
    [][(op'.kind = "bind" /\ IsBound(op'.self, op'.targetCallback)) =>
          /\ thrown' = "Cannot bind the same callback twice."
          /\ targetCalls' = <<>>
          /\ UNCHANGED <<targetToSourceDefinition, sourcePropertyToTarget, propertyMaps,
                         listeners, events, subscribedEmitters, declared>>
      ]_vars

\* bind( spy1 ).to( observableA, 'bar' ) was rejected while spy1 was bound to
\* foo of observableA.
C21_Witness ==
    /\ op.kind = "bind"
    /\ op.properties = <<"observableA", "bar">>
    /\ thrown = "Cannot bind the same callback twice."
    /\ <<op.self, op.targetCallback, <<"observableA", "foo">>>> \in declared
    /\ Get(targetToSourceDefinition[op.self], op.targetCallback) = <<<<"observableA", <<"foo">>>>>>

\* A source list that has fewer than 2 elements, or a string or an object without
\* bind at an Observable position (the first, the third, ...), or an object at a
\* property position (the second, the fourth, ...).
IsInvalidSource(properties) ==
    \/ Len(properties) < 2
    \/ \E i \in 1..Len(properties) :
          \/ i % 2 = 1 /\ properties[i] \notin Observables
          \/ i % 2 = 0 /\ properties[i] \in Objects

\* C22: to( ... ) with an invalid source list throws 'Invalid source definition.'.
C22_InvalidSourceThrows ==
    [][(/\ op'.kind = "bind"
        /\ ~IsBound(op'.self, op'.targetCallback)
        /\ IsInvalidSource(op'.properties)) =>
          thrown' = "Invalid source definition."
      ]_vars

\* The targets the observable holds for the property of the source, none when
\* the source or the property has no entry.
TargetsOf(index, maps, self, source, property) ==
    IF Has(index[self], source) /\ Has(maps[Get(index[self], source)], property)
    THEN Get(maps[Get(index[self], source)], property)
    ELSE <<>>

\* C23: when to( ... ) throws 'Invalid source definition.' the target is not
\* called and not recorded, the bindings, the change listeners and the
\* subscriptions stay as they were, and a bind of the target with a valid
\* source list made next succeeds.
C23_InvalidSourceCommitsNothing ==
    [][/\ (op'.kind = "bind" /\ thrown' = "Invalid source definition.") =>
            /\ targetCalls' = <<>>
            /\ ~Has(targetToSourceDefinition'[op'.self], op'.targetCallback)
            /\ UNCHANGED <<targetToSourceDefinition, sourcePropertyToTarget, propertyMaps,
                           listeners, events, subscribedEmitters, declared>>
       /\ (op'.kind = "bind" /\ op'.again /\ ~IsInvalidSource(op'.properties)) =>
            /\ thrown' = None
            /\ Has(targetToSourceDefinition'[op'.self], op'.targetCallback)
            /\ Len(CallsOf(targetCalls', op'.targetCallback)) = 1
      ]_vars

\* spy1 was bound to foo of observableA right after its to() with an invalid
\* source list had thrown, spy2 being bound to the same property.
C23_Witness ==
    /\ op.kind = "bind"
    /\ op.again
    /\ op.targetCallback = "spy1"
    /\ thrown = None
    /\ TargetsOf(sourcePropertyToTarget, propertyMaps, "observable", "observableA", "foo")
            = <<"spy2", "spy1">>

\* C24: unbind( t ) for a target that is not bound on the observable throws
\* nothing, calls no target and changes neither the bindings, the change
\* listeners nor the subscriptions.
C24_UnbindOfUnboundIsNoOp ==
    [][(op'.kind = "unbind" /\ ~IsBound(op'.self, op'.targetCallback)) =>
          /\ ~error'
          /\ thrown' = None
          /\ targetCalls' = <<>>
          /\ UNCHANGED <<targetToSourceDefinition, sourcePropertyToTarget, propertyMaps,
                         listeners, events, subscribedEmitters, declared, released>>
      ]_vars

\* unbind( spy2 ) was called while spy1 was bound and spy2 had never been.
C24_Witness ==
    /\ op.kind = "unbind"
    /\ op.targetCallback = "spy2"
    /\ ~error
    /\ IsBound(op.self, "spy1")
    /\ \A r \in released : r[2] # "spy2"
    /\ TargetsOf(sourcePropertyToTarget, propertyMaps, "observable", "observableA", "foo")
            = <<"spy1">>

\* C25: a target is bound by a bind().to() that does not throw and unbound by
\* unbind, bind throws for a target that is bound, and a target bound again
\* after an unbind is called once by that bind and once by every later change
\* of a property it has declared.
C25_BindingStateMachine ==
    [][/\ (op'.kind = "bind" /\ IsBound(op'.self, op'.targetCallback)) =>
            thrown' = "Cannot bind the same callback twice."
       /\ (op'.kind = "bind" /\ thrown' = None) =>
            /\ Has(targetToSourceDefinition'[op'.self], op'.targetCallback)
            /\ Len(CallsOf(targetCalls', op'.targetCallback)) = 1
       /\ op'.kind = "unbind" =>
            ~Has(targetToSourceDefinition'[op'.self], op'.targetCallback)
       /\ Changed(op'.kind, fired') =>
            \A r \in declared :
                (/\ <<r[1], r[2]>> \in rebound
                 /\ <<op'.self, op'.name>> \in Elements(DeclaredPairs(r[3]))) =>
                    Len(CallsOf(targetCalls', r[2])) = 1
      ]_vars

\* C26: a change during which a callback unbinds a bound target throws nothing
\* and does not call the target after unbind has returned, and a later change of
\* a property the target had declared throws nothing and does not call it.
C26_UnbindDuringDispatchIsSafe ==
    [][Changed(op'.kind, fired') =>
          /\ \A i \in 1..Len(unbinds') :
                unbinds'[i].bound =>
                    /\ ~error'
                    /\ \A k \in 1..Len(targetCalls') :
                          targetCalls'[k].target = unbinds'[i].target => k <= unbinds'[i].at
          /\ \A r \in released :
                <<op'.self, op'.name>> \in Elements(DeclaredPairs(r[3])) =>
                    /\ ~error'
                    /\ Len(CallsOf(targetCalls', r[2])) = 0
      ]_vars

\* The occurrences of the callback in the maps' lists: in all event lists of an
\* emitter, or in all entries of a bookkeeping.
RECURSIVE CountIn(_, _, _)
CountIn(map, callback, i) ==
    IF i > Len(map) THEN 0
    ELSE Count(map[i][2], callback) + CountIn(map, callback, i + 1)

\* The occurrences of the callback the listeners hold for the emitter.
RECURSIVE SubscribedCount(_, _, _)
SubscribedCount(listening, emitter, callback) ==
    IF listening = {} THEN 0
    ELSE LET a == CHOOSE x \in listening : TRUE
         IN  Count(SubscribedOf(subscribedEmitters, a, emitter), callback)
                + SubscribedCount(listening \ {a}, emitter, callback)

\* C27: for every emitter, the callbacks the listeners hold for it in their
\* bookkeeping are, with their multiplicities, the callbacks in its event lists.
C27_BookkeepingMatchesEventLists ==
    \A b \in Emitters, c \in Callbacks :
        SubscribedCount(Emitters, b, c) = CountIn(events[b], c, 1)

\* The change listeners the observable has created that are in the list of the
\* change event of the property of the source.
ListenersOn(evs, created, self, source, property) ==
    LET list == ListOf(evs, source, ChangeEvent(property))
    IN  {j \in 1..Len(list) :
            \E i \in 1..Len(created) :
                ListenerName(i) = list[j] /\ created[i].self = self}

\* The <<source, property>> keys of the observable's _sourcePropertyToTarget.
IndexKeys(index, maps, self) ==
    {pair \in Observables \X Properties :
        /\ Has(index[self], pair[1])
        /\ Has(maps[Get(index[self], pair[1])], pair[2])}

\* C28: for every <<source, property>> key of an observable's
\* _sourcePropertyToTarget, exactly one change listener of that observable is
\* in the list of change:property of the source.
C28_OneListenerPerIndexKey ==
    \A o \in Observables :
        \A pair \in IndexKeys(sourcePropertyToTarget, propertyMaps, o) :
            Cardinality(ListenersOn(events, listeners, o, pair[1], pair[2])) = 1

\* C29: between the operations, a target is a key of an observable's
\* _targetToSourceDefinition if and only if it is in the target set of at least
\* one <<source, property>> key of its _sourcePropertyToTarget.
C29_BoundIffInSomeTargetSet ==
    \A o \in Observables, t \in AllTargets :
        Has(targetToSourceDefinition[o], t) <=>
            \E pair \in IndexKeys(sourcePropertyToTarget, propertyMaps, o) :
                t \in Elements(TargetsOf(sourcePropertyToTarget, propertyMaps, o,
                                         pair[1], pair[2]))

\* spy2 was unbound while spy1 stayed bound to foo and bar of observableA and
\* to foo of observableB.
C29_Witness ==
    /\ op.kind = "unbind"
    /\ op.targetCallback = "spy2"
    /\ \E r \in released : r[2] = "spy2"
    /\ ~Has(targetToSourceDefinition["observable"], "spy2")
    /\ Has(targetToSourceDefinition["observable"], "spy1")
    /\ IndexKeys(sourcePropertyToTarget, propertyMaps, "observable")
            = {<<"observableA", "foo">>, <<"observableA", "bar">>, <<"observableB", "foo">>}

C30_UnbindTearsDownEmptyEntries ==
    [][op'.kind = "unbind" =>
          LET o == op'.self
          IN  /\ \A pair \in IndexKeys(sourcePropertyToTarget, propertyMaps, o) :
                    TargetsOf(sourcePropertyToTarget, propertyMaps, o, pair[1], pair[2])
                            = <<op'.targetCallback>> =>
                        /\ pair \notin IndexKeys(sourcePropertyToTarget', propertyMaps', o)
                        /\ ListenersOn(events', listeners', o, pair[1], pair[2]) = {}
              /\ \A pair \in IndexKeys(sourcePropertyToTarget', propertyMaps', o) :
                    TargetsOf(sourcePropertyToTarget', propertyMaps', o, pair[1], pair[2])
                            # <<>>
              /\ \A i \in 1..Len(sourcePropertyToTarget'[o]) :
                    Len(propertyMaps'[sourcePropertyToTarget'[o][i][2]]) > 0
      ]_vars

\* C32: a fire( N ) whose first stopping callback signals event.off() too calls
\* the callbacks up to it and none after it, and removes it from the list of N,
\* the callbacks after it staying in the list; a later fire( N ) does not call
\* it and calls the callbacks of the list up to the first one that stops.
C32_OffThenStop ==
    [][op'.kind = "fire" =>
          LET list    == ListOf(events, op'.self, op'.eventName)
              reached == Reached(list, op'.eventName)
          IN  /\ (Len(list) > 0 /\ list[reached] = "offStopSpy") =>
                    /\ CalledCallbacks(calls') = SubSeq(list, 1, reached)
                    /\ ListOf(events', op'.self, op'.eventName) =
                         WithoutPositions(list,
                            {i \in 1..reached : SignalsOff(list[i], op'.eventName)})
                    /\ SubSeq(ListOf(events', op'.self, op'.eventName),
                              Len(ListOf(events', op'.self, op'.eventName))
                                    - (Len(list) - reached) + 1,
                              Len(ListOf(events', op'.self, op'.eventName)))
                            = SubSeq(list, reached + 1, Len(list))
              /\ "offStopSpy" \in op'.afterOff =>
                    /\ "offStopSpy" \notin Elements(CalledCallbacks(calls'))
                    /\ CalledCallbacks(calls') = SubSeq(list, 1, reached)
      ]_vars

\* The callback that signals off and stop was registered between spy1 and spy2:
\* the fire after the one it stopped called spy1 and spy2.
C32_Witness ==
    /\ op.kind = "fire"
    /\ op.afterOff = {"offStopSpy"}
    /\ op.afterStop
    /\ CalledCallbacks(calls) = <<"spy1", "spy2">>
    /\ ListOf(events, op.self, op.eventName) = <<"spy1", "spy2">>

\* C33: self.stopListening( b, N ) and self.stopListening( b ) leave in the
\* lists of b every callback that only other emitters registered on b, and
\* leave the bookkeeping of the other emitters as it was.
C33_StopListeningKeepsForeignCallbacks ==
    [][(op'.kind = "stopListening" /\ op'.emitter # None /\ op'.callback = None) =>
          /\ \A n \in EventNames, c \in Callbacks :
                (\A r \in registered : (r[2] = op'.emitter /\ r[4] = c) => r[1] # op'.self) =>
                    Count(ListOf(events', op'.emitter, n), c) =
                        Count(ListOf(events, op'.emitter, n), c)
          /\ \A s \in Emitters \ {op'.self} :
                subscribedEmitters'[s] = subscribedEmitters[s]
      ]_vars

\* The callback is a change listener that the observable has created.
IsListenerOf(created, self, callback) ==
    \E i \in 1..Len(created) : ListenerName(i) = callback /\ created[i].self = self

\* C34: unbind( t ) on an observable leaves in the change lists of every source
\* the callbacks that are not change listeners of that observable: the
\* listeners of other observables and the callbacks registered with on.
C34_UnbindKeepsForeignListeners ==
    [][op'.kind = "unbind" =>
          \A source \in Observables, property \in Properties :
              LET list == ListOf(events, source, ChangeEvent(property))
              IN  \A k \in 1..Len(list) :
                      ~IsListenerOf(listeners, op'.self, list[k]) =>
                          Count(ListOf(events', source, ChangeEvent(property)), list[k]) =
                              Count(list, list[k])
      ]_vars

\* C35: a fire keeps the correspondence of C27 for the emitter that fires: the
\* listeners' bookkeeping for it holds, after the fire, the callbacks of its
\* event lists, a callback that detached itself with event.off() being in neither.
C35_OffUpdatesBookkeeping ==
    [][\A b \in Emitters, c \in Callbacks :
          (/\ op'.kind = "fire"
           /\ op'.self = b
           /\ SubscribedCount(Emitters, b, c) = CountIn(events[b], c, 1)) =>
              (SubscribedCount(Emitters, b, c) = CountIn(events[b], c, 1))'
      ]_vars

\* C36: fire( N ) calls the callbacks of the list of N as it is when fire
\* starts, in its order, up to the first one that stops: the callback that a
\* callback of the dispatch registers for N is not called by that dispatch and
\* is in the list for the next one, a callback that a callback of the dispatch
\* unregisters is still called by that dispatch, and no fire calls a callback
\* that was unregistered during an earlier dispatch and not registered again.
C36_DispatchOverSnapshot ==
    [][op'.kind = "fire" =>
          LET list    == ListOf(events, op'.self, op'.eventName)
              reached == Reached(list, op'.eventName)
              called  == CalledCallbacks(calls')
              after   == ListOf(events', op'.self, op'.eventName)
          IN  /\ called = SubSeq(list, 1, reached)
              /\ ("registerSpy" \in Elements(called)
                    /\ "stopListeningSpy" \notin Elements(called)) =>
                    /\ Count(after, "spy2") = Count(list, "spy2") + Count(called, "registerSpy")
                    /\ Count(called, "spy2") = Count(SubSeq(list, 1, reached), "spy2")
              /\ \A i \in 1..reached :
                    <<op'.self, op'.eventName, list[i]>> \in unregistered' =>
                        called[i] = list[i]
              /\ \A c \in Elements(called) :
                    <<op'.self, op'.eventName, c>> \notin unregistered
      ]_vars

\* The arguments of the calls of the callback among the recorded calls.
ArgsOf(recorded, callback) ==
    LET mine == SelectSeq(recorded, LAMBDA call : call.callback = callback)
    IN  [i \in 1..Len(mine) |-> mine[i].args]

\* C37: a write that returns has called every listener of change:name with the
\* ( new value, old value ) of every store the operation made, in the order of
\* the stores, so that the new value of its last call is the stored value.
C37_NotificationsInStoreOrder ==
    [][(Changed(op'.kind, fired') /\ ~error') =>
          LET list == ListOf(events, op'.self, ChangeEvent(op'.name))
          IN  \A k \in 1..Len(list) :
                  LET mine == ArgsOf(calls', list[k])
                  IN  /\ mine = [i \in 1..Len(fired') |-> fired'[i].args]
                      /\ mine[Len(mine)][1] = Get(observables'[op'.self], op'.name)
      ]_vars

\* The fixed value the spy sets foo of observableA to.
FixedValue(callback) == IF callback = "setNaNSpy" THEN "NaN" ELSE "b"

\* The listeners of the event that write the property.
Writers(list) == Elements(list) \cap {"setSpy", "setNaNSpy"}

RecordedPairs(definitions, self, targetCallback) ==
    LET definition == Get(definitions[self], targetCallback)
    IN  IF ~Has(definitions[self], targetCallback) THEN {}
        ELSE {pair \in Observables \X Properties :
                /\ Has(definition, pair[1])
                /\ pair[2] \in Elements(Get(definition, pair[1]))}

\* C38: between the operations, a target is in the target set of a
\* <<source, property>> of an observable's _sourcePropertyToTarget if and only
\* if the pair is in the source definition that _targetToSourceDefinition
\* records for the target.
C38_IndexMatchesRecordedDefinition ==
    \A o \in Observables, t \in AllTargets, pair \in Observables \X Properties :
        t \in Elements(TargetsOf(sourcePropertyToTarget, propertyMaps, o, pair[1], pair[2]))
            <=> pair \in RecordedPairs(targetToSourceDefinition, o, t)

\* C39: when a change of a property does not throw, every target that was
\* bound to the property when the change occurred, and every target bound to
\* it by a target called for the change, is called exactly once during the
\* operation.
C39_TargetBoundInsideCalledOnce ==
    [][(Changed(op'.kind, fired') /\ ~error') =>
          \A o \in Observables, t \in AllTargets :
              (\/ t \in Elements(TargetsOf(sourcePropertyToTarget, propertyMaps,
                                            o, op'.self, op'.name))
               \/ t \in Elements(TargetsOf(sourcePropertyToTarget', propertyMaps',
                                            o, op'.self, op'.name))) =>
                  Len(CallsOf(targetCalls', t)) = 1
      ]_vars

====
